---- MODULE Spec2Model ----
(***************************************************************************)
(* Goof, an optimizing Brainfuck VM: the source normalizer, the idiom      *)
(* recognizer, the compiler and the interpreter of execute(), and the REPL *)
(* session of main() that drives it.                                       *)
(*                                                                         *)
(* A string is a sequence of one-character strings; a byte is 0..255.      *)
(***************************************************************************)
EXTENDS Integers, Sequences, FiniteSets, TLC

\* ------------------------------------------------------------------ bounds

\* Tape size of the modelled session (the -m flag; 30000 by default).
MemorySize == 3

\* Characters typed at the prompts of one session, all lines together.
MaxTyped == 3

\* What a line of Seeds counts for in MaxTyped.
SeedCost == 2

\* Longest output of one run that the model follows, in bytes.
MaxOut == 4

\* Copy loops have at most MaxSegments segments, each of at most MaxMoves
\* pointer moves and MaxPlus increments.
MaxSegments == 3
MaxMoves == 1
MaxPlus == 2

\* The values of the source cell of a copy loop, and of the other cells.
SourceValues == {0, 1, 255}
TargetValues == {7}

\* Straight-line sessions type at most MaxStraight characters.
MaxStraight == 4

\* Sessions of lines with comments type at most MaxCommented characters.
MaxCommented == 3

\* Clear loops have at most MaxClear "+" or "-" between their brackets.
MaxClear == 2

\* Scan loops have at most MaxStride pointer moves.
MaxStride == 2

\* A line of scan loops has at most MaxScans of them.
MaxScans == 2

\* The values of the cells a scan loop is run on.
ScanValues == {0, 1}

\* Each of the two lines of a composition takes at most MaxPart characters.
MaxPart == 2

\* A line of idioms is put together from at most MaxPieces pieces.
MaxPieces == 3

\* --------------------------------------------------------------- constants

ADD_SUB == 0
PTR_MOV == 1
JMP_ZER == 2
JMP_NOT_ZER == 3
PUT_CHR == 4
RAD_CHR == 5
CLR == 6
MUL_CPY == 7
SCN_RGT == 8
SCN_LFT == 9

Instruction(type, data, aux, offset) ==
    [Type |-> type, Data |-> data, AuxData |-> aux, Offset |-> offset]

\* The eight-symbol alphabet kept by the first regexp of execute.
Alphabet == {"+", "-", ">", "<", ".", ",", "[", "]"}

\* ------------------------------------------------------- string utilities

\* strings.Count(s, char)
Count(s, char) == Cardinality({k \in 1..Len(s) : s[k] = char})

\* strings.Repeat(char, n)
Repeat(char, n) == [k \in 1..n |-> char]

\* First index >= i of s whose character is not in class (Len(s)+1 if none):
\* the end of a greedy character-class repetition started at i.
RECURSIVE RunEnd(_, _, _)
RunEnd(s, i, class) ==
    IF i <= Len(s) /\ s[i] \in class THEN RunEnd(s, i + 1, class) ELSE i

processBalanced(s, char1, char2) ==
    LET total == Count(s, char1) - Count(s, char2)
    IN  IF total > 0 THEN Repeat(char1, total)
        ELSE IF total < 0 THEN Repeat(char2, -total)
        ELSE <<>>

\* ------------------------------------------------------ source normalizer

\* dummyChars with a class that leaves the letter "C" in the string.
dummyCharsButC(code) == SelectSeq(code, LAMBDA c : c \in Alphabet \cup {"C"})

\* regexp `[^\+\-\>\<\.\,\]\[]` replaced by "".
dummyChars(code) == SelectSeq(code, LAMBDA c : c \in Alphabet)

\* regexp `[c1c2]{2,}` replaced through processBalanced, from index i on.
RECURSIVE nopRuns(_, _, _, _)
nopRuns(s, i, char1, char2) ==
    IF i > Len(s) THEN <<>>
    ELSE LET j == RunEnd(s, i, {char1, char2})
         IN  IF j - i >= 2
             THEN processBalanced(SubSeq(s, i, j - 1), char1, char2)
                      \o nopRuns(s, j, char1, char2)
             ELSE <<s[i]>> \o nopRuns(s, i + 1, char1, char2)

nopAddSub(code) == nopRuns(code, 1, "+", "-")
nopRgtLft(code) == nopRuns(code, 1, ">", "<")

Normalize(code) == nopRgtLft(nopAddSub(dummyChars(code)))

\* -------------------------------------------------------- idiom recognizer

\* The rewritten string and the side tables filled while it is rewritten.
Rewritten(code, scan, cmap, cmul) ==
    [code |-> code, scanloopMap |-> scan, copyloopMap |-> cmap,
     copyloopMulMap |-> cmul]

\* Index after one `\[[+-]+\]` at j, or j when there is none.
ClearLoopAt(s, j) ==
    IF j <= Len(s) /\ s[j] = "["
    THEN LET e == RunEnd(s, j + 1, {"+", "-"})
         IN  IF e > j + 1 /\ e <= Len(s) /\ s[e] = "]" THEN e + 1 ELSE j
    ELSE j

\* Index after the greedy `(?:\[[+-]+\])*` at j.
RECURSIVE ClearLoopsEnd(_, _)
ClearLoopsEnd(s, j) ==
    LET n == ClearLoopAt(s, j) IN IF n = j THEN j ELSE ClearLoopsEnd(s, n)

\* regexp `[C+-]*(?:\[[+-]+\])+\.*` replaced by "C", from index i on.
RECURSIVE clearloopFrom(_, _)
clearloopFrom(s, i) ==
    IF i > Len(s) THEN <<>>
    ELSE LET j == RunEnd(s, i, {"C", "+", "-"})
             k == ClearLoopsEnd(s, j)
         IN  IF k > j
             THEN <<"C">> \o clearloopFrom(s, RunEnd(s, k, {"."}))
             ELSE <<s[i]>> \o clearloopFrom(s, i + 1)

clearloop(code) == clearloopFrom(code, 1)

\* scanloopFrom with the letter put between the brackets of the loop.
RECURSIVE scanloopInsideBrackets(_, _, _, _, _)
scanloopInsideBrackets(s, i, char, letter, acc) ==
    IF i > Len(s) THEN acc
    ELSE LET e == RunEnd(s, i + 1, {char})
         IN  IF s[i] = "[" /\ e > i + 1 /\ e <= Len(s) /\ s[e] = "]"
             THEN scanloopInsideBrackets(s, e + 1, char, letter,
                      [code |-> acc.code \o <<"[", letter, "]">>,
                       scanloopMap |-> Append(acc.scanloopMap, e - i - 1)])
             ELSE scanloopInsideBrackets(s, i + 1, char, letter,
                      [acc EXCEPT !.code = Append(@, s[i])])

\* regexp `\[>+\]` (char = ">", letter = "R") or `\[<+\]` (char = "<",
\* letter = "L") replaced by the letter, the stride appended to scanloopMap.
RECURSIVE scanloopFrom(_, _, _, _, _)
scanloopFrom(s, i, char, letter, acc) ==
    IF i > Len(s) THEN acc
    ELSE LET e == RunEnd(s, i + 1, {char})
         IN  IF s[i] = "[" /\ e > i + 1 /\ e <= Len(s) /\ s[e] = "]"
             THEN scanloopFrom(s, e + 1, char, letter,
                      [code |-> Append(acc.code, letter),
                       scanloopMap |-> Append(acc.scanloopMap, e - i - 1)])
             ELSE scanloopFrom(s, i + 1, char, letter,
                      [acc EXCEPT !.code = Append(@, s[i])])

scanloopRight(code, scanloopMap) ==
    scanloopFrom(code, 1, ">", "R", [code |-> <<>>, scanloopMap |-> scanloopMap])

scanloopLeft(code, scanloopMap) ==
    scanloopFrom(code, 1, "<", "L", [code |-> <<>>, scanloopMap |-> scanloopMap])

\* regexp `[RL]+C|[CRL]+\.+` replaced by "", from index i on. The first
\* alternative is preferred wherever both match at i.
RECURSIVE noClearPrintFrom(_, _)
noClearPrintFrom(s, i) ==
    IF i > Len(s) THEN <<>>
    ELSE LET j1 == RunEnd(s, i, {"R", "L"})
             j2 == RunEnd(s, i, {"C", "R", "L"})
             k2 == RunEnd(s, j2, {"."})
         IN  IF j1 > i /\ j1 <= Len(s) /\ s[j1] = "C"
             THEN noClearPrintFrom(s, j1 + 1)
             ELSE IF j2 > i /\ k2 > j2
             THEN noClearPrintFrom(s, k2)
             ELSE <<s[i]>> \o noClearPrintFrom(s, i + 1)

noClearPrint(code) == noClearPrintFrom(code, 1)

\* The class `[+-C]` of the overwrite regexp is the RANGE from "+" to "C"
\* (bytes 43..67); of the characters a rewritten string can hold it contains
\* these.
OverwriteClass == {"+", ",", "-", ".", "<", ">", "C"}

\* regexp `[+-C]+,` replaced by ",", from index i on. The repetition is
\* greedy and "," is itself in the class, so a match started at i ends at the
\* LAST "," of the class run that has at least one character before it.
RECURSIVE overwriteFrom(_, _)
overwriteFrom(s, i) ==
    IF i > Len(s) THEN <<>>
    ELSE LET j == RunEnd(s, i, OverwriteClass)
             commas == {k \in i + 1..j - 1 : s[k] = ","}
         IN  IF commas # {}
             THEN LET last == CHOOSE k \in commas : \A m \in commas : m <= k
                  IN  <<",">> \o overwriteFrom(s, last + 1)
             ELSE <<s[i]>> \o overwriteFrom(s, i + 1)

overwrite(code) == overwriteFrom(code, 1)

\* `(?:[<>]+\++)+[<>]+` parsed at i: the `[<>]+\++` segments and the index
\* after the closing `[<>]+`.
RECURSIVE CopySegments(_, _, _)
CopySegments(s, i, acc) ==
    LET m == RunEnd(s, i, {"<", ">"})
        p == RunEnd(s, m, {"+"})
    IN  IF m = i THEN [ok |-> FALSE, segs |-> acc, end |-> i]
        ELSE IF p > m THEN CopySegments(s, p, Append(acc, SubSeq(s, i, p - 1)))
        ELSE [ok |-> Len(acc) > 0, segs |-> acc, end |-> m]

\* The match of `\[-(?:[<>]+\++)+[<>]+\]|\[(?:[<>]+\++)+[<>]+-\]` at i:
\* [ok, segs, end] with end the index after the match.
CopyLoopAt(s, i) ==
    IF ~(i <= Len(s) /\ s[i] = "[") THEN [ok |-> FALSE, segs |-> <<>>, end |-> i]
    ELSE IF i + 1 <= Len(s) /\ s[i + 1] = "-"
    THEN LET r == CopySegments(s, i + 2, <<>>)
         IN  [ok |-> r.ok /\ r.end <= Len(s) /\ s[r.end] = "]",
              segs |-> r.segs, end |-> r.end + 1]
    ELSE LET r == CopySegments(s, i + 1, <<>>)
         IN  [ok |-> r.ok /\ r.end + 1 <= Len(s) /\ s[r.end] = "-"
                          /\ s[r.end + 1] = "]",
              segs |-> r.segs, end |-> r.end + 2]

\* The side-table entries of the segments k..Len(segs), offset being the
\* cumulative pointer offset before segment k.
RECURSIVE CopyEntries(_, _, _, _)
CopyEntries(segs, k, offset, acc) ==
    IF k > Len(segs) THEN acc
    ELSE LET o == offset - Count(segs[k], "<") + Count(segs[k], ">")
         IN  CopyEntries(segs, k + 1, o,
                 [copyloopMap |-> Append(acc.copyloopMap, o),
                  copyloopMulMap |-> Append(acc.copyloopMulMap, Count(segs[k], "+"))])

\* The copy-loop regexp replaced through its function, from index i on.
RECURSIVE copyloopFrom(_, _, _)
copyloopFrom(s, i, acc) ==
    IF i > Len(s) THEN acc
    ELSE LET r == CopyLoopAt(s, i)
             m == SubSeq(s, i, r.end - 1)
         IN  IF ~r.ok
             THEN copyloopFrom(s, i + 1, [acc EXCEPT !.code = Append(@, s[i])])
             ELSE IF Count(m, ">") - Count(m, "<") = 0
             THEN LET e == CopyEntries(r.segs, 1, 0,
                               [copyloopMap |-> acc.copyloopMap,
                                copyloopMulMap |-> acc.copyloopMulMap])
                  IN  copyloopFrom(s, r.end,
                          [acc EXCEPT !.code = @ \o Repeat("P", Len(r.segs)) \o <<"C">>,
                                      !.copyloopMap = e.copyloopMap,
                                      !.copyloopMulMap = e.copyloopMulMap])
             ELSE copyloopFrom(s, r.end, [acc EXCEPT !.code = @ \o m])

copyloop(rw) == copyloopFrom(rw.code, 1, [rw EXCEPT !.code = <<>>])

\* The block guarded by "if optimize".
Optimize(code) ==
    LET c1 == clearloop(code)
        r  == scanloopRight(c1, <<>>)
        l  == scanloopLeft(r.code, r.scanloopMap)
        c3 == noClearPrint(l.code)
        c4 == overwrite(c3)
    IN  copyloop(Rewritten(c4, l.scanloopMap, <<>>, <<>>))

\* The string the compile loop reads, with its side tables.
Rewrite(code, optimize) ==
    IF optimize THEN Optimize(Normalize(code))
    ELSE Rewritten(Normalize(code), <<>>, <<>>, <<>>)

\* ---------------------------------------------------------------- compiler

\* fold(&code, &i, char): the length of the run of char that starts at i
\* (the loop index is left on the run's last character).
fold(code, i, char) == RunEnd(code, i + 1, {char}) - i

\* The locals of the compile loop.
CompileState(instructions, braceStack, offset, copyloopCounter, scanloopCounter) ==
    [instructions |-> instructions, braceStack |-> braceStack, offset |-> offset,
     copyloopCounter |-> copyloopCounter, scanloopCounter |-> scanloopCounter]

\* What the compile half of execute hands on: the return code (0 when the run
\* loop is entered), the instruction vector, and whether an index expression
\* of the loop was out of range.
Compiled(rc, instructions, panic) ==
    [rc |-> rc, instructions |-> instructions, panic |-> panic]

\* "instructions = append(instructions, newInstruction)".
Emit(c, ins) == [c EXCEPT !.instructions = Append(@, ins)]

\* The "[", "R" and "L" cases with a pending offset: a PTR_MOV is emitted, the
\* offset is reset and the character is read again.
Flush(c) ==
    [c EXCEPT !.instructions = Append(@, Instruction(PTR_MOV, c.offset, 0, 0)),
              !.offset = 0]

\* DataOp without the pending offset in the instruction.
DataOpAtCursor(c, type, data, aux) == Emit(c, Instruction(type, data, aux, 0))

\* A data op ("+", "-", ".", ",", "C", "P"): it carries the pending offset.
DataOp(c, type, data, aux) == Emit(c, Instruction(type, data, aux, c.offset))

\* The "[" case without a pending offset: the index the JMP_ZER will have is
\* pushed and the JMP_ZER emitted.
OpenLoop(c) ==
    Emit([c EXCEPT !.braceStack = Append(@, Len(c.instructions))],
         Instruction(JMP_ZER, 0, 0, 0))

\* CloseLoop without the back-patch of the matching JMP_ZER.
CloseLoopUnpatched(c) ==
    Emit([c EXCEPT !.braceStack = SubSeq(@, 1, Len(@) - 1)],
         Instruction(JMP_NOT_ZER, c.braceStack[Len(c.braceStack)], 0, 0))

\* The "]" case with a non-empty brace stack: the matching JMP_ZER is popped
\* and given the index the JMP_NOT_ZER will have, which is emitted.
CloseLoop(c) ==
    LET start == c.braceStack[Len(c.braceStack)]
    IN  Emit([c EXCEPT !.braceStack = SubSeq(@, 1, Len(@) - 1),
                       !.instructions[start + 1].Data = Len(c.instructions)],
             Instruction(JMP_NOT_ZER, start, 0, 0))

\* EndOfInput without the check of the brace stack.
EndOfInputUnchecked(c) ==
    Compiled(0, IF c.offset # 0
                THEN Append(c.instructions, Instruction(PTR_MOV, c.offset, 0, 0))
                ELSE c.instructions, FALSE)

\* After the compile loop: the trailing PTR_MOV of a pending offset, and
\* return 2 when a "[" is still open.
EndOfInput(c) ==
    LET ins == IF c.offset # 0
               THEN Append(c.instructions, Instruction(PTR_MOV, c.offset, 0, 0))
               ELSE c.instructions
    IN  IF Len(c.braceStack) # 0 THEN Compiled(2, ins, FALSE)
        ELSE Compiled(0, ins, FALSE)

\* Move that folds the run into the pending offset inside loops as well.
MoveFolded(c, n) == [c EXCEPT !.offset = @ + n]

\* The ">" and "<" cases, n the signed length of the run: outside every loop
\* the run is added to the pending offset, inside a loop it is a PTR_MOV.
Move(c, n) ==
    IF Len(c.braceStack) = 0 THEN [c EXCEPT !.offset = @ + n]
    ELSE Emit(c, Instruction(PTR_MOV, n, 0, 0))

\* How an iteration of the compile loop ends: at index next with the locals
\* c, or (done) leaving execute with result.
Continue(next, c) ==
    [done |-> FALSE, next |-> next, c |-> c, result |-> Compiled(0, <<>>, FALSE)]
Leave(c, result) ==
    [done |-> TRUE, next |-> 0, c |-> c, result |-> result]

\* One iteration of "for i := 0; i < len(code); i++"; i is the 1-based index
\* of the character read.
compileStep(rw, i, c) ==
    LET ch == rw.code[i]
        n  == fold(rw.code, i, ch)
    IN  CASE ch = "+" -> Continue(i + n, DataOp(c, ADD_SUB, n, 0))
          [] ch = "-" -> Continue(i + n, DataOp(c, ADD_SUB, -n, 0))
          [] ch = ">" -> Continue(i + n, Move(c, n))
          [] ch = "<" -> Continue(i + n, Move(c, -n))
          [] ch = "[" ->
               IF c.offset # 0 THEN Continue(i, Flush(c))
               ELSE Continue(i + 1, OpenLoop(c))
          [] ch = "]" ->
               IF Len(c.braceStack) = 0 THEN Leave(c, Compiled(1, c.instructions, FALSE))
               ELSE Continue(i + 1, CloseLoop(c))
          [] ch = "." -> Continue(i + n, DataOp(c, PUT_CHR, n, 0))
          [] ch = "," -> Continue(i + 1, DataOp(c, RAD_CHR, 0, 0))
          [] ch = "C" -> Continue(i + 1, DataOp(c, CLR, 0, 0))
          [] ch = "P" ->
               IF c.copyloopCounter >= Len(rw.copyloopMap)
               THEN Leave(c, Compiled(0, c.instructions, TRUE))
               ELSE Continue(i + 1,
                        DataOp([c EXCEPT !.copyloopCounter = @ + 1], MUL_CPY,
                               rw.copyloopMap[c.copyloopCounter + 1],
                               rw.copyloopMulMap[c.copyloopCounter + 1]))
          [] ch \in {"R", "L"} ->
               IF c.offset # 0 THEN Continue(i, Flush(c))
               ELSE IF c.scanloopCounter >= Len(rw.scanloopMap)
               THEN Leave(c, Compiled(0, c.instructions, TRUE))
               ELSE Continue(i + 1,
                        Emit([c EXCEPT !.scanloopCounter = @ + 1],
                             Instruction(IF ch = "R" THEN SCN_RGT ELSE SCN_LFT,
                                         rw.scanloopMap[c.scanloopCounter + 1], 0, 0)))
          [] OTHER -> Continue(i + 1, Emit(c, Instruction(0, 0, 0, 0)))

\* The compile loop from index i on, and what follows it.
RECURSIVE compileFrom(_, _, _)
compileFrom(rw, i, c) ==
    IF i > Len(rw.code) THEN EndOfInput(c)
    ELSE LET n == compileStep(rw, i, c)
         IN  IF n.done THEN n.result ELSE compileFrom(rw, n.next, n.c)

\* The compile half of execute: normalizer, idiom recognizer, compile loop.
Compile(code, optimize) ==
    compileFrom(Rewrite(code, optimize), 1, CompileState(<<>>, <<>>, 0, 0, 0))

\* The compile loop as it was before offsets were folded into the data ops
\* (compile of version 1.0): every run of ">" or "<" is a PTR_MOV of its own
\* and the instructions have no Offset field, which is an Offset of 0.
RECURSIVE compileExplicitFrom(_, _, _)
compileExplicitFrom(rw, i, c) ==
    IF i > Len(rw.code) THEN Compiled(0, c.instructions, FALSE)
    ELSE LET ch == rw.code[i]
             n  == fold(rw.code, i, ch)
         IN  CASE ch = "+" ->
                    compileExplicitFrom(rw, i + n, Emit(c, Instruction(ADD_SUB, n, 0, 0)))
               [] ch = "-" ->
                    compileExplicitFrom(rw, i + n, Emit(c, Instruction(ADD_SUB, -n, 0, 0)))
               [] ch = ">" ->
                    compileExplicitFrom(rw, i + n, Emit(c, Instruction(PTR_MOV, n, 0, 0)))
               [] ch = "<" ->
                    compileExplicitFrom(rw, i + n, Emit(c, Instruction(PTR_MOV, -n, 0, 0)))
               [] ch = "[" ->
                    compileExplicitFrom(rw, i + 1, OpenLoop(c))
               [] ch = "]" ->
                    IF Len(c.braceStack) = 0 THEN Compiled(0, c.instructions, TRUE)
                    ELSE compileExplicitFrom(rw, i + 1, CloseLoop(c))
               [] ch = "." ->
                    compileExplicitFrom(rw, i + n, Emit(c, Instruction(PUT_CHR, n, 0, 0)))
               [] ch = "," ->
                    compileExplicitFrom(rw, i + 1, Emit(c, Instruction(RAD_CHR, 0, 0, 0)))
               [] ch = "C" ->
                    compileExplicitFrom(rw, i + 1, Emit(c, Instruction(CLR, 0, 0, 0)))
               [] ch = "P" ->
                    IF c.copyloopCounter >= Len(rw.copyloopMap)
                    THEN Compiled(0, c.instructions, TRUE)
                    ELSE compileExplicitFrom(rw, i + 1,
                             Emit([c EXCEPT !.copyloopCounter = @ + 1],
                                  Instruction(MUL_CPY,
                                              rw.copyloopMap[c.copyloopCounter + 1],
                                              rw.copyloopMulMap[c.copyloopCounter + 1], 0)))
               [] ch \in {"R", "L"} ->
                    IF c.scanloopCounter >= Len(rw.scanloopMap)
                    THEN Compiled(0, c.instructions, TRUE)
                    ELSE compileExplicitFrom(rw, i + 1,
                             Emit([c EXCEPT !.scanloopCounter = @ + 1],
                                  Instruction(IF ch = "R" THEN SCN_RGT ELSE SCN_LFT,
                                              rw.scanloopMap[c.scanloopCounter + 1], 0, 0)))
               [] OTHER ->
                    compileExplicitFrom(rw, i + 1, Emit(c, Instruction(0, 0, 0, 0)))

\* The string the compile loop of execute reads, compiled by the loop with
\* explicit pointer moves.
CompileExplicit(code, optimize) ==
    compileExplicitFrom(Rewrite(code, optimize), 1, CompileState(<<>>, <<>>, 0, 0, 0))

\* ------------------------------------------------------------- interpreter

\* byte(n) that saturates at 0 and 255 instead of wrapping.
ByteSaturated(n) == IF n < 0 THEN 0 ELSE IF n > 255 THEN 255 ELSE n

\* byte(n) of an int n.
Byte(n) == n % 256

\* string(b) of a byte b: the UTF-8 encoding of the code point b.
StringOfByte(b) ==
    IF b < 128 THEN <<b>> ELSE <<192 + (b \div 64), 128 + (b % 64)>>

\* strings.Repeat(s, n) of a byte string s.
RepeatString(s, n) == [k \in 1..n * Len(s) |-> s[((k - 1) % Len(s)) + 1]]

\* An index expression lCells[k] that does not panic.
InTape(tape, k) == k \in DOMAIN tape

\* The locals of the run loop: the tape (lCells shares its array with *cells),
\* lCellptr, the loop index i (0-based), the bytes printed, and whether an
\* index expression went out of range.
Machine(tape, lCellptr, i, out, panic) ==
    [cells |-> tape, lCellptr |-> lCellptr, i |-> i, out |-> out, panic |-> panic]

Panic(m) == [m EXCEPT !.panic = TRUE]

\* Where a scan loop leaves the cursor, or that its index expression panicked.
Scanned(ptr, panic) == [ptr |-> ptr, panic |-> panic]

\* ScanRight with the cell tested before the bound.
RECURSIVE ScanRightCellFirst(_, _, _)
ScanRightCellFirst(tape, ptr, stride) ==
    IF ~InTape(tape, ptr) THEN Scanned(ptr, TRUE)
    ELSE IF tape[ptr] # 0 THEN ScanRightCellFirst(tape, ptr + stride, stride)
    ELSE Scanned(ptr, FALSE)

\* "for ; lCellptr < len(lCells) && lCells[lCellptr] != 0; lCellptr += Data".
RECURSIVE ScanRight(_, _, _)
ScanRight(tape, ptr, stride) ==
    IF ptr < MemorySize
    THEN IF ~InTape(tape, ptr) THEN Scanned(ptr, TRUE)
         ELSE IF tape[ptr] # 0 THEN ScanRight(tape, ptr + stride, stride)
         ELSE Scanned(ptr, FALSE)
    ELSE Scanned(ptr, FALSE)

\* "for ; lCellptr > 0 && lCells[lCellptr] != 0; lCellptr -= Data".
RECURSIVE ScanLeft(_, _, _)
ScanLeft(tape, ptr, stride) ==
    IF ptr > 0
    THEN IF ~InTape(tape, ptr) THEN Scanned(ptr, TRUE)
         ELSE IF tape[ptr] # 0 THEN ScanLeft(tape, ptr - stride, stride)
         ELSE Scanned(ptr, FALSE)
    ELSE Scanned(ptr, FALSE)

\* One iteration of the run loop on instruction ins (the switch; the loop's i++
\* is in Advance). RAD_CHR has no case: its code is commented out.
ExecInstr(ins, m) ==
    LET at  == m.lCellptr + ins.Offset
        dst == m.lCellptr + ins.Data + ins.Offset
    IN  CASE ins.Type = ADD_SUB ->
               IF ~InTape(m.cells, at) THEN Panic(m)
               ELSE [m EXCEPT !.cells[at] = Byte(@ + ins.Data)]
          [] ins.Type = PTR_MOV ->
               [m EXCEPT !.lCellptr = @ + ins.Data]
          [] ins.Type = JMP_ZER ->
               IF ~InTape(m.cells, at) THEN Panic(m)
               ELSE IF m.cells[at] = 0 THEN [m EXCEPT !.i = ins.Data] ELSE m
          [] ins.Type = JMP_NOT_ZER ->
               IF ~InTape(m.cells, at) THEN Panic(m)
               ELSE IF m.cells[at] # 0 THEN [m EXCEPT !.i = ins.Data] ELSE m
          [] ins.Type = PUT_CHR ->
               IF ~InTape(m.cells, at) THEN Panic(m)
               ELSE [m EXCEPT !.out = @ \o RepeatString(StringOfByte(m.cells[at]), ins.Data)]
          [] ins.Type = CLR ->
               IF ~InTape(m.cells, at) THEN Panic(m)
               ELSE [m EXCEPT !.cells[at] = 0]
          [] ins.Type = MUL_CPY ->
               IF ~InTape(m.cells, at) THEN Panic(m)
               ELSE IF m.cells[at] = 0 THEN m
               ELSE IF ~InTape(m.cells, dst) THEN Panic(m)
               ELSE [m EXCEPT !.cells[dst] = Byte(@ + m.cells[at] * ins.AuxData)]
          [] ins.Type = SCN_RGT ->
               LET p == ScanRight(m.cells, m.lCellptr, ins.Data)
               IN  IF p.panic THEN Panic(m) ELSE [m EXCEPT !.lCellptr = p.ptr]
          [] ins.Type = SCN_LFT ->
               LET p == ScanLeft(m.cells, m.lCellptr, ins.Data)
               IN  IF p.panic THEN Panic(m) ELSE [m EXCEPT !.lCellptr = p.ptr]
          [] OTHER -> m

\* One whole iteration of "for i := 0; i < len(instructions); i++".
Advance(instructions, m) ==
    LET n == ExecInstr(instructions[m.i + 1], m)
    IN  IF n.panic THEN n ELSE [n EXCEPT !.i = @ + 1]

\* ------------------------------------------------------------ the sessions

\* Two REPL sessions, one started with -o=false and one with -o=true, are
\* given the same lines; each has its own tape, cursor and run.
Sessions == {1, 2}

\* "make([]byte, memorySize)".
ZeroTape == [k \in 0..MemorySize - 1 |-> 0]

\* Longer lines that are typed as well: a copy loop, and a line with bytes
\* outside the alphabet.
Seeds ==
    { <<"+", "[", "-", ">", "+", "<", "]">>,
      <<"-", "[", "-", "]", ".">>,
      <<"-", "[", ">", "]">>,
      <<"+", "[", "[", "-", "]", ">", "]">>,
      <<"C", "-", " ", ".", "\n">> }

\* What a line takes of the session's MaxTyped characters.
Cost(line) == IF line \in Seeds THEN SeedCost ELSE Len(line)

\* The lines a session can be given while budget characters are left.
Lines(budget) ==
    UNION {[1..n -> Alphabet] : n \in 0..budget}
        \cup (IF SeedCost <= budget THEN Seeds ELSE {})

VARIABLES
    optimize,      \* optimize[s]: the -o flag of session s
    cells,         \* cells[s]: the tape of main (lCells shares its array)
    cellptr,       \* cellptr[s]: *cellptr of main
    pc,            \* pc[s]: "prompt" (reading a line), "run" (in the run loop),
                   \* "returned" (execute has returned), "crashed" (a panic
                   \* during this line) or "exited" (the process is gone)
    repl,          \* the line last read at the prompt
    instructions,  \* instructions[s]: the compiled vector of the run
    i,             \* i[s]: index of the run loop (0-based)
    lCellptr,      \* lCellptr[s]
    out,           \* out[s]: the bytes the run has printed
    rc,            \* rc[s]: what the last execute returned
    start,         \* start[s]: tape and cursor when the last execute was called
    typed,         \* what the lines executed so far took of MaxTyped
    stdin          \* stdin[s]: the bytes waiting on standard input behind the line

vars == <<optimize, cells, cellptr, pc, repl, instructions, i, lCellptr, out,
          rc, start, typed, stdin>>

\* The state of one session as a record.
View(s) ==
    [cells |-> cells[s], cellptr |-> cellptr[s], pc |-> pc[s],
     instructions |-> instructions[s], i |-> i[s], lCellptr |-> lCellptr[s],
     out |-> out[s], rc |-> rc[s], start |-> start[s]]

\* The sessions' variables after each session s moved to record n[s]; m is
\* the value of n, evaluated once.
Put(n) ==
    \E m \in {n} :
        /\ cells' = [s \in Sessions |-> m[s].cells]
        /\ cellptr' = [s \in Sessions |-> m[s].cellptr]
        /\ pc' = [s \in Sessions |-> m[s].pc]
        /\ instructions' = [s \in Sessions |-> m[s].instructions]
        /\ i' = [s \in Sessions |-> m[s].i]
        /\ lCellptr' = [s \in Sessions |-> m[s].lCellptr]
        /\ out' = [s \in Sessions |-> m[s].out]
        /\ rc' = [s \in Sessions |-> m[s].rc]
        /\ start' = [s \in Sessions |-> m[s].start]

\* main up to the first prompt.
Init ==
    /\ optimize = [s \in Sessions |-> s = 2]
    /\ cells = [s \in Sessions |-> ZeroTape]
    /\ cellptr = [s \in Sessions |-> 0]
    /\ pc = [s \in Sessions |-> "prompt"]
    /\ repl = <<>>
    /\ instructions = [s \in Sessions |-> <<>>]
    /\ i = [s \in Sessions |-> 0]
    /\ lCellptr = [s \in Sessions |-> 0]
    /\ out = [s \in Sessions |-> <<>>]
    /\ rc = [s \in Sessions |-> 0]
    /\ start = [s \in Sessions |-> [cells |-> ZeroTape, cellptr |-> 0]]
    /\ typed = 0
    /\ stdin = [s \in Sessions |-> <<65>>]

\* Every session that is still alive waits at ">>> ".
AtPrompt ==
    /\ \A s \in Sessions : pc[s] \in {"prompt", "exited"}
    /\ \E s \in Sessions : pc[s] = "prompt"

\* A process that is gone: nothing of it is left.
Gone(v) ==
    [v EXCEPT !.pc = "exited", !.cells = ZeroTape, !.cellptr = 0,
              !.instructions = <<>>, !.i = 0, !.lCellptr = 0, !.out = <<>>,
              !.rc = 0, !.start = [cells |-> ZeroTape, cellptr |-> 0]]

\* Call without the early returns: what was compiled is run.
CallUnchecked(v, c) ==
    [v EXCEPT !.start = [cells |-> v.cells, cellptr |-> v.cellptr],
              !.lCellptr = v.cellptr, !.pc = "run",
              !.instructions = c.instructions]

\* execute up to the run loop, called by session record v with the compiled c:
\* return 1 or 2 before anything ran, or enter the loop.
Call(v, c) ==
    LET w == [v EXCEPT !.start = [cells |-> v.cells, cellptr |-> v.cellptr],
                       !.lCellptr = v.cellptr]
    IN  IF c.panic THEN [w EXCEPT !.pc = "crashed"]
        ELSE IF c.rc # 0 THEN [w EXCEPT !.pc = "returned", !.rc = c.rc]
        ELSE [w EXCEPT !.pc = "run", !.instructions = c.instructions]

\* A line that is no command is read and every session at the prompt enters
\* the run of what was compiled for it, c[s].
Enter(line, c) ==
    /\ repl' = line
    /\ typed' = typed + Cost(line)
    /\ Put([s \in Sessions |->
              IF pc[s] = "prompt" THEN Call(View(s), c[s]) ELSE View(s)])
    /\ UNCHANGED <<optimize, stdin>>

\* execute is called with the line read.
Execute(line) == Enter(line, [s \in Sessions |-> Compile(line, optimize[s])])

\* RunStep without the store of the cursor when execute returns.
RunStepCursorNotStored(v) ==
    IF v.i < Len(v.instructions)
    THEN LET n == Advance(v.instructions,
                          Machine(v.cells, v.lCellptr, v.i, v.out, FALSE))
         IN  IF n.panic THEN [v EXCEPT !.pc = "crashed"]
             ELSE [v EXCEPT !.cells = n.cells, !.lCellptr = n.lCellptr,
                            !.i = n.i, !.out = n.out]
    ELSE [v EXCEPT !.rc = 0, !.pc = "returned"]

\* One iteration of the run loop of session record v, or, past the last
\* instruction, the end of execute: the cursor is stored and 0 returned. An
\* index out of range is a panic, which ends the process.
RunStep(v) ==
    IF v.i < Len(v.instructions)
    THEN LET n == Advance(v.instructions,
                          Machine(v.cells, v.lCellptr, v.i, v.out, FALSE))
         IN  IF n.panic THEN [v EXCEPT !.pc = "crashed"]
             ELSE [v EXCEPT !.cells = n.cells, !.lCellptr = n.lCellptr,
                            !.i = n.i, !.out = n.out]
    ELSE [v EXCEPT !.cellptr = v.lCellptr, !.rc = 0, !.pc = "returned"]

\* The sessions whose run the model follows further.
Running == {s \in Sessions : pc[s] = "run" /\ Len(out[s]) <= MaxOut}

\* Every running session executes its next step.
Step ==
    /\ Running # {}
    /\ Put([s \in Sessions |-> IF s \in Running THEN RunStep(View(s)) ELSE View(s)])
    /\ UNCHANGED <<optimize, repl, typed, stdin>>

\* execute has returned in every session that is still alive: main prints the
\* message of the return code and the next prompt. The line and the locals of
\* execute are gone, and so is a process that panicked.
Prompt ==
    /\ \A s \in Sessions : pc[s] \in {"returned", "crashed", "exited"}
    /\ \E s \in Sessions : pc[s] = "returned"
    /\ repl' = <<>>
    /\ Put([s \in Sessions |->
              IF pc[s] = "returned"
              THEN [View(s) EXCEPT !.pc = "prompt", !.instructions = <<>>,
                                   !.i = 0, !.lCellptr = 0, !.out = <<>>, !.rc = 0,
                                   !.start = [cells |-> cells[s], cellptr |-> cellptr[s]]]
              ELSE Gone(View(s))])
    /\ UNCHANGED <<optimize, typed, stdin>>

\* The "clear" command.
Clear ==
    /\ AtPrompt
    /\ Put([s \in Sessions |->
              IF pc[s] = "prompt"
              THEN [View(s) EXCEPT !.cellptr = 0, !.cells = ZeroTape,
                                   !.start = [cells |-> ZeroTape, cellptr |-> 0]]
              ELSE View(s)])
    /\ UNCHANGED <<optimize, repl, typed, stdin>>

\* The "exit" and "quit" commands.
Exit ==
    /\ AtPrompt
    /\ Put([s \in Sessions |->
              IF pc[s] = "prompt" THEN Gone(View(s)) ELSE View(s)])
    /\ UNCHANGED <<optimize, repl, typed, stdin>>

\* The next line typed at the prompt is a program.
ReadLine == AtPrompt /\ \E line \in Lines(MaxTyped - typed) : Execute(line)

Next ==
    \/ ReadLine
    \/ Step
    \/ Prompt
    \/ Clear
    \/ Exit

Spec == Init /\ [][Next]_vars

\* ------------------------------------------------- sessions of copy loops

\* A segment `[<>]+\++` of a copy loop: moves times dir, then plus times "+".
Segment(dir, moves, plus) == Repeat(dir, moves) \o Repeat("+", plus)

\* The shapes of the segments of a loop, one <<dir, moves, plus>> a segment.
SegmentLists ==
    UNION {[1..n -> {"<", ">"} \X (1..MaxMoves) \X (1..MaxPlus)] :
               n \in 1..MaxSegments}

\* The segments k..Len(sl) as a string.
RECURSIVE Segments(_, _)
Segments(sl, k) ==
    IF k > Len(sl) THEN <<>>
    ELSE Segment(sl[k][1], sl[k][2], sl[k][3]) \o Segments(sl, k + 1)

\* The moves that take the pointer back to the source cell.
Return(body) ==
    LET net == Count(body, ">") - Count(body, "<")
    IN  IF net > 0 THEN Repeat("<", net) ELSE Repeat(">", -net)

\* The loops with zero net pointer motion either alternative of the copy-loop
\* regexp matches: the decrement of the source first, or last.
CopyLoops ==
    LET bodies == {b \in {Segments(sl, 1) : sl \in SegmentLists} :
                       Count(b, ">") # Count(b, "<")}
    IN  {<<"[", "-">> \o b \o Return(b) \o <<"]">> : b \in bodies}
            \cup {<<"[">> \o b \o Return(b) \o <<"-", "]">> : b \in bodies}

\* main, and lines typed until the cursor is on cell p, that cell holds v and
\* every other cell t.
InitCopy ==
    \E p \in 0..MemorySize - 1, v \in SourceValues, t \in TargetValues :
        LET tape == [k \in 0..MemorySize - 1 |-> IF k = p THEN v ELSE t]
        IN  /\ optimize = [s \in Sessions |-> s = 2]
            /\ cells = [s \in Sessions |-> tape]
            /\ cellptr = [s \in Sessions |-> p]
            /\ pc = [s \in Sessions |-> "prompt"]
            /\ repl = <<>>
            /\ instructions = [s \in Sessions |-> <<>>]
            /\ i = [s \in Sessions |-> 0]
            /\ lCellptr = [s \in Sessions |-> 0]
            /\ out = [s \in Sessions |-> <<>>]
            /\ rc = [s \in Sessions |-> 0]
            /\ start = [s \in Sessions |-> [cells |-> tape, cellptr |-> p]]
            /\ typed = 0
            /\ stdin = [s \in Sessions |-> <<65>>]

\* The line typed is a copy loop.
ReadCopyLoop == AtPrompt /\ typed = 0 /\ \E line \in CopyLoops : Execute(line)

NextCopy ==
    \/ ReadCopyLoop
    \/ Step
    \/ Prompt

SpecCopy == InitCopy /\ [][NextCopy]_vars

\* --------------------------------------- sessions of straight-line programs

\* The lines without a bracket a session can be given while budget characters
\* are left.
StraightLines(budget) ==
    UNION {[1..n -> Alphabet \ {"[", "]"}] : n \in 1..budget}

\* main up to the first prompt; both sessions are started with the same -o.
InitFold ==
    \E o \in BOOLEAN :
        /\ optimize = [s \in Sessions |-> o]
        /\ cells = [s \in Sessions |-> ZeroTape]
        /\ cellptr = [s \in Sessions |-> 0]
        /\ pc = [s \in Sessions |-> "prompt"]
        /\ repl = <<>>
        /\ instructions = [s \in Sessions |-> <<>>]
        /\ i = [s \in Sessions |-> 0]
        /\ lCellptr = [s \in Sessions |-> 0]
        /\ out = [s \in Sessions |-> <<>>]
        /\ rc = [s \in Sessions |-> 0]
        /\ start = [s \in Sessions |-> [cells |-> ZeroTape, cellptr |-> 0]]
        /\ typed = 0
        /\ stdin = [s \in Sessions |-> <<65>>]

\* Session 1 runs the line compiled with explicit pointer moves, session 2
\* the line compiled by execute.
ExecuteExplicit(line) ==
    Enter(line, [s \in Sessions |->
                   IF s = 1 THEN CompileExplicit(line, optimize[s])
                   ELSE Compile(line, optimize[s])])

\* The line typed is a straight-line program.
ReadStraightLine ==
    AtPrompt /\ \E line \in StraightLines(MaxStraight - typed) : ExecuteExplicit(line)

NextFold ==
    \/ ReadStraightLine
    \/ Step
    \/ Prompt

SpecFold == InitFold /\ [][NextFold]_vars

\* ------------------------------------------------- sessions of scan loops

\* The loops the scan-loop regexps match: `\[>+\]` and `\[<+\]`.
ScanLoops ==
    {<<"[">> \o Repeat(dir, n) \o <<"]">> : dir \in {"<", ">"}, n \in 1..MaxStride}

\* The loops list[k..] one after the other.
RECURSIVE Concatenated(_, _)
Concatenated(list, k) ==
    IF k > Len(list) THEN <<>> ELSE list[k] \o Concatenated(list, k + 1)

\* The lines of one to MaxScans scan loops.
ScanLines ==
    {Concatenated(list, 1) : list \in UNION {[1..n -> ScanLoops] : n \in 1..MaxScans}}

\* main, and lines typed until the tape is tape and the cursor is on cell p.
InitScan ==
    \E p \in 0..MemorySize - 1, tape \in [0..MemorySize - 1 -> ScanValues] :
        /\ optimize = [s \in Sessions |-> s = 2]
        /\ cells = [s \in Sessions |-> tape]
        /\ cellptr = [s \in Sessions |-> p]
        /\ pc = [s \in Sessions |-> "prompt"]
        /\ repl = <<>>
        /\ instructions = [s \in Sessions |-> <<>>]
        /\ i = [s \in Sessions |-> 0]
        /\ lCellptr = [s \in Sessions |-> 0]
        /\ out = [s \in Sessions |-> <<>>]
        /\ rc = [s \in Sessions |-> 0]
        /\ start = [s \in Sessions |-> [cells |-> tape, cellptr |-> p]]
        /\ typed = 0
        /\ stdin = [s \in Sessions |-> <<65>>]

\* The line typed is one scan loop or several.
ReadScanLoop == AtPrompt /\ typed = 0 /\ \E line \in ScanLines : Execute(line)

NextScan ==
    \/ ReadScanLoop
    \/ Step
    \/ Prompt

SpecScan == InitScan /\ [][NextScan]_vars

\* ------------------------------------------------ sessions of clear loops

\* Lines the clear-loop regexp `[C+-]*(?:\[[+-]+\])+\.*` matches whole after
\* the normalizer: a loop around a run of "+" or of "-", behind at most one
\* modification of the cell.
ClearLoops ==
    {pre \o <<"[">> \o Repeat(sign, n) \o <<"]">> :
        pre \in {<<>>, <<"+">>, <<"-">>}, sign \in {"+", "-"}, n \in 1..MaxClear}

\* The line typed is a clear loop.
ReadClearLoop == AtPrompt /\ typed = 0 /\ \E line \in ClearLoops : Execute(line)

NextClear ==
    \/ ReadClearLoop
    \/ Step
    \/ Prompt

\* A process that is in its run loop executes the next instruction.
SpecClear == InitCopy /\ [][NextClear]_vars /\ WF_vars(Step)

\* ------------------------------------------ sessions of commented lines

\* Characters outside the alphabet: a letter the idiom recognizer uses as a
\* placeholder, and a blank.
Comments == {"C", " "}

\* The lines with comments a session can be given while budget characters
\* are left.
CommentedLines(budget) ==
    UNION {[1..n -> Alphabet \cup Comments] : n \in 1..budget}

\* line without the characters that are outside the alphabet.
RECURSIVE Uncommented(_)
Uncommented(line) ==
    IF line = <<>> THEN <<>>
    ELSE IF Head(line) \in Comments THEN Uncommented(Tail(line))
    ELSE <<Head(line)>> \o Uncommented(Tail(line))

\* Session 2 executes the line typed, session 1 the line without its
\* comments.
ExecuteCommented(line) ==
    Enter(line, [s \in Sessions |->
                   Compile(IF s = 1 THEN Uncommented(line) ELSE line, optimize[s])])

\* The line typed is a line with comments.
ReadCommentedLine ==
    AtPrompt /\ \E line \in CommentedLines(MaxCommented - typed) : ExecuteCommented(line)

NextComment ==
    \/ ReadCommentedLine
    \/ Step
    \/ Prompt

\* Both sessions are started with the same -o, as in InitFold.
SpecComment == InitFold /\ [][NextComment]_vars

\* ------------------------------ sessions of scans before a clear or print

\* main with -o=o in both sessions, and lines typed until the tape is tape
\* and the cursor is on cell p.
StartedWith(o, tape, p) ==
    /\ optimize = [s \in Sessions |-> o]
    /\ cells = [s \in Sessions |-> tape]
    /\ cellptr = [s \in Sessions |-> p]
    /\ pc = [s \in Sessions |-> "prompt"]
    /\ repl = <<>>
    /\ instructions = [s \in Sessions |-> <<>>]
    /\ i = [s \in Sessions |-> 0]
    /\ lCellptr = [s \in Sessions |-> 0]
    /\ out = [s \in Sessions |-> <<>>]
    /\ rc = [s \in Sessions |-> 0]
    /\ start = [s \in Sessions |-> [cells |-> tape, cellptr |-> p]]
    /\ typed = 0
    /\ stdin = [s \in Sessions |-> <<65>>]

\* Both sessions run with the idiom recognizer, on any tape of ScanValues.
InitKnownZero ==
    \E p \in 0..MemorySize - 1, tape \in [0..MemorySize - 1 -> ScanValues] :
        StartedWith(TRUE, tape, p)

\* Lines the known-zero regexp `[RL]+C|[CRL]+\.+` matches once the loops are
\* placeholders: a scan loop before a clear loop or a print.
KnownZeroLines ==
    {scan \o op : scan \in ScanLoops, op \in {<<"[", "-", "]">>, <<".">>}}

\* The block guarded by "if optimize" without the known-zero rule.
OptimizeKeepingKnownZero(code) ==
    LET c1 == clearloop(code)
        r  == scanloopRight(c1, <<>>)
        l  == scanloopLeft(r.code, r.scanloopMap)
        c4 == overwrite(l.code)
    IN  copyloop(Rewritten(c4, l.scanloopMap, <<>>, <<>>))

\* Session 2 executes the line; session 1 executes it with the known-zero
\* rule skipped.
ExecuteKnownZero(line) ==
    Enter(line, [s \in Sessions |->
                   IF s = 1
                   THEN compileFrom(OptimizeKeepingKnownZero(Normalize(line)), 1,
                                    CompileState(<<>>, <<>>, 0, 0, 0))
                   ELSE Compile(line, optimize[s])])

\* The line typed is a scan loop before a clear loop or a print.
ReadKnownZero ==
    AtPrompt /\ typed = 0 /\ \E line \in KnownZeroLines : ExecuteKnownZero(line)

NextKnownZero ==
    \/ ReadKnownZero
    \/ Step
    \/ Prompt

SpecKnownZero == InitKnownZero /\ [][NextKnownZero]_vars

\* ------------------------------------------------------------------ claims

InsideTape(k) == k \in 0..MemorySize - 1

\* Session s is in the execute of the line repl, or has left it.
InExecute(s) == pc[s] \in {"run", "returned", "crashed"}

\* Session s is about to execute an instruction of its run.
AboutToExecute(s) == s \in Running /\ i[s] < Len(instructions[s])

\* The instruction session s executes next, and the cell it addresses.
Current(s) == instructions[s][i[s] + 1]
Addressed(s) == lCellptr[s] + Current(s).Offset

\* Open brackets minus close brackets among the first k characters of line.
RECURSIVE DepthAfter(_, _)
DepthAfter(line, k) ==
    IF k = 0 THEN 0
    ELSE DepthAfter(line, k - 1)
             + (IF line[k] = "[" THEN 1 ELSE IF line[k] = "]" THEN -1 ELSE 0)

\* Some "]" of line has no matching earlier "[".
UnmatchedClose(line) == \E k \in 1..Len(line) : DepthAfter(line, k) < 0

\* Every "]" of line is matched and some "[" is never closed.
UnmatchedOpen(line) == ~UnmatchedClose(line) /\ DepthAfter(line, Len(line)) > 0

\* The brackets of line are equal in number and correctly nested.
Balanced(line) == ~UnmatchedClose(line) /\ DepthAfter(line, Len(line)) = 0

\* C1: whenever the run with optimize=false of a line returns 0, the run with
\* optimize=true of the same line from the same tape and cursor returns 0 with
\* the same output, the same tape and the same cursor.
C1_OptimizedRunIsTheSame ==
    (/\ pc[1] = "returned" /\ rc[1] = 0
     /\ pc[2] \in {"returned", "crashed"}
     /\ start[1] = start[2])
        => (/\ pc[2] = "returned" /\ rc[2] = 0
            /\ out[2] = out[1]
            /\ cells[2] = cells[1]
            /\ cellptr[2] = cellptr[1])

\* C2: the cursor is inside the tape at every instruction boundary of a run
\* and in the session state stored after every run.
C2_CursorInsideTape ==
    \A s \in Sessions :
        /\ pc[s] # "exited" => InsideTape(cellptr[s])
        /\ pc[s] = "run" => InsideTape(lCellptr[s])

\* Every JMP_ZER points at a JMP_NOT_ZER inside the vector that points back
\* at it, and every JMP_NOT_ZER is the partner of exactly one JMP_ZER.
BranchesPaired(ins) ==
    /\ \A a \in 1..Len(ins) :
          ins[a].Type = JMP_ZER =>
              /\ 0 <= ins[a].Data /\ ins[a].Data < Len(ins)
              /\ ins[ins[a].Data + 1].Type = JMP_NOT_ZER
              /\ ins[ins[a].Data + 1].Data = a - 1
    /\ \A b \in 1..Len(ins) :
          ins[b].Type = JMP_NOT_ZER =>
              Cardinality({a \in 1..Len(ins) :
                             ins[a].Type = JMP_ZER /\ ins[a].Data = b - 1}) = 1

\* C3: a line whose brackets are balanced compiles (execute returns neither 1
\* nor 2) to a vector whose branches are paired.
C3_BalancedLineCompiles ==
    \A s \in Sessions :
        (InExecute(s) /\ Balanced(repl)) =>
            /\ rc[s] = 0
            /\ BranchesPaired(instructions[s])

\* A session runs a vector with a loop nested in a loop.
C3_Witness ==
    \E s \in Sessions :
        /\ pc[s] = "run" /\ Balanced(repl)
        /\ \E a, b \in 1..Len(instructions[s]) :
              /\ a < b
              /\ instructions[s][a].Type = JMP_ZER
              /\ instructions[s][b].Type = JMP_ZER
              /\ instructions[s][a].Data > instructions[s][b].Data

\* C4: for a line with an unmatched "]", execute returns 1 and the tape, the
\* cursor and the output are as they were before the call.
C4_UnmatchedCloseAborts ==
    \A s \in Sessions :
        (InExecute(s) /\ UnmatchedClose(repl)) =>
            /\ pc[s] = "returned" /\ rc[s] = 1
            /\ cells[s] = start[s].cells
            /\ cellptr[s] = start[s].cellptr
            /\ out[s] = <<>>

\* On a tape an earlier line has written, a line with an unmatched "]"
\* after other operations has returned 1.
C4_Witness ==
    \E s \in Sessions :
        /\ pc[s] = "returned" /\ rc[s] = 1
        /\ UnmatchedClose(repl) /\ repl[1] # "]"
        /\ start[s].cells # ZeroTape

\* C5: for a line whose "]" are all matched and with a "[" never closed,
\* execute returns 2 and the tape, the cursor and the output are as they were
\* before the call.
C5_UnmatchedOpenAborts ==
    \A s \in Sessions :
        (InExecute(s) /\ UnmatchedOpen(repl)) =>
            /\ pc[s] = "returned" /\ rc[s] = 2
            /\ cells[s] = start[s].cells
            /\ cellptr[s] = start[s].cellptr
            /\ out[s] = <<>>

\* On a tape an earlier line has written, a line with an unclosed "[" and
\* other operations has returned 2.
C5_Witness ==
    \E s \in Sessions :
        /\ pc[s] = "returned" /\ rc[s] = 2
        /\ UnmatchedOpen(repl) /\ Len(repl) > 1
        /\ start[s].cells # ZeroTape

\* C6: an instruction that addresses a cell outside the tape aborts the run
\* only: execute returns to the session, which goes on, and the tape is as it
\* was at the violation.
C6_RangeViolationEndsTheRunOnly ==
    [][\A s \in Sessions :
          (AboutToExecute(s) /\ RunStep(View(s)).pc = "crashed") =>
              /\ pc'[s] \in {"returned", "prompt"}
              /\ cells'[s] = cells[s]]_vars

\* C7: PUT_CHR with count n appends n bytes to the output, each the value of
\* the addressed cell.
C7_PutAppendsTheCell ==
    [][\A s \in Sessions :
          (/\ AboutToExecute(s)
           /\ Current(s).Type = PUT_CHR
           /\ InsideTape(Addressed(s))) =>
              out'[s] = out[s] \o [k \in 1..Current(s).Data |->
                                      cells[s][Addressed(s)]]]_vars

\* C8: RAD_CHR takes one byte from standard input and stores it in the
\* addressed cell; no other cell changes and the cursor does not.
C8_GetStoresOneByte ==
    [][\A s \in Sessions :
          (/\ AboutToExecute(s)
           /\ Current(s).Type = RAD_CHR
           /\ InsideTape(Addressed(s))
           /\ stdin[s] # <<>>) =>
              /\ stdin'[s] = Tail(stdin[s])
              /\ cells'[s] = [cells[s] EXCEPT ![Addressed(s)] = Head(stdin[s])]
              /\ lCellptr'[s] = lCellptr[s]]_vars

\* The vector the copy-loop fusion emits for a line that is one matched loop:
\* MUL_CPY instructions and a closing CLR.
Fused(ins) ==
    /\ Len(ins) >= 2
    /\ ins[Len(ins)].Type = CLR
    /\ \A k \in 1..Len(ins) - 1 : ins[k].Type = MUL_CPY

\* The multipliers recorded for offset d by the first k instructions, summed.
RECURSIVE Multiplier(_, _, _)
Multiplier(ins, d, k) ==
    IF k = 0 THEN 0
    ELSE Multiplier(ins, d, k - 1)
             + (IF ins[k].Type = MUL_CPY /\ ins[k].Data = d THEN ins[k].AuxData ELSE 0)

\* C9: run on a source cell of value v, the MUL_CPY...CLR vector of a fused
\* copy loop leaves the source cell 0, has added v times the multiplier
\* (mod 256) to the cell at each recorded offset and leaves the cursor where
\* it was; and when the loop itself, run unoptimized, terminates, it ends
\* with this tape and cursor.
C9_FusedCopyLoopIsTheLoop ==
    (/\ pc[2] = "returned" /\ Fused(instructions[2])
     /\ start[1] = start[2] /\ InsideTape(start[2].cellptr)) =>
        LET p == start[2].cellptr
            v == start[2].cells[p]
            n == Len(instructions[2])
        IN  /\ cells[2][p] = 0
            /\ \A k \in (0..MemorySize - 1) \ {p} :
                   cells[2][k] =
                       (start[2].cells[k] + v * Multiplier(instructions[2], k - p, n)) % 256
            /\ cellptr[2] = p
            /\ pc[1] = "returned" =>
                   (cells[1] = cells[2] /\ cellptr[1] = cellptr[2])

\* The runs of a line have ended in both sessions.
BothEnded == \A s \in Sessions : pc[s] \in {"returned", "crashed"}

\* C10: a straight-line program compiled with the pointer moves folded into
\* offsets ends as it does compiled with explicit PTR_MOVs and every
\* instruction at offset 0, and with the same tape.
C10_FoldedOffsetsSameTape ==
    (BothEnded /\ start[1] = start[2]) =>
        (pc[1] = pc[2] /\ cells[1] = cells[2])

\* Both runs have returned and changed the tape, the one with explicit pointer
\* moves between its data ops, the other with a data op at a folded offset.
C10_Witness ==
    /\ \A s \in Sessions : pc[s] = "returned"
    /\ start[1] = start[2] /\ cells[2] # start[2].cells
    /\ \E a, b \in 1..Len(instructions[1]) :
          /\ a < b
          /\ instructions[1][a].Type = PTR_MOV
          /\ instructions[1][b].Type = ADD_SUB
    /\ \E a \in 1..Len(instructions[2]) :
          /\ instructions[2][a].Type = ADD_SUB
          /\ instructions[2][a].Offset # 0

\* C11: a SCN_RGT or SCN_LFT that starts with the cursor inside the tape and
\* finishes leaves the cursor inside the tape, on a cell that is 0.
C11_ScanEndsOnZeroCell ==
    [][\A s \in Sessions :
          (/\ AboutToExecute(s)
           /\ Current(s).Type \in {SCN_RGT, SCN_LFT}
           /\ InsideTape(lCellptr[s])
           /\ pc'[s] = "run") =>
              /\ InsideTape(lCellptr'[s])
              /\ cells'[s][lCellptr'[s]] = 0]_vars

\* C12: a line the clear-loop fusion compiles to one CLR, run unoptimized,
\* terminates with the pointed cell 0, the other cells and the cursor as they
\* were, which is the tape and cursor the CLR leaves.
C12_ClearLoopClears ==
    []((/\ pc[1] = "run" /\ start[1] = start[2]
        /\ instructions[2] = <<Instruction(CLR, 0, 0, 0)>>) =>
           <>(/\ pc[1] = "returned" /\ pc[2] = "returned"
              /\ cells[1] = [start[1].cells EXCEPT ![start[1].cellptr] = 0]
              /\ cellptr[1] = start[1].cellptr
              /\ cells[2] = cells[1]
              /\ cellptr[2] = cellptr[1]))

\* The line is not empty and has no character but "+" and "-".
OnlyAddSub(line) == Len(line) > 0 /\ \A k \in 1..Len(line) : line[k] \in {"+", "-"}

\* Session s has ended the run of a line of "+" and "-" started on a zero cell.
EndedAddSub(s) ==
    /\ pc[s] \in {"returned", "crashed"}
    /\ OnlyAddSub(repl)
    /\ InsideTape(start[s].cellptr)
    /\ start[s].cells[start[s].cellptr] = 0

\* C13: a line of "+" and "-" run on a zero cell returns without an error
\* and leaves in the pointed cell the number of "+" minus the number of "-",
\* mod 256; no other cell changes and the cursor does not.
C13_AddSubIsTheSumMod256 ==
    \A s \in Sessions :
        EndedAddSub(s) =>
            /\ pc[s] = "returned" /\ rc[s] = 0
            /\ cells[s] = [start[s].cells EXCEPT ![start[s].cellptr] =
                               (Count(repl, "+") - Count(repl, "-")) % 256]
            /\ cellptr[s] = start[s].cellptr

\* A line with more "-" than "+", and both, has run on a zero cell: the cell
\* has wrapped below 0.
C13_Witness ==
    \E s \in Sessions :
        /\ EndedAddSub(s)
        /\ Count(repl, "+") > 0
        /\ Count(repl, "-") > Count(repl, "+")
        /\ cells[s][cellptr[s]] = 255

\* C14: a line and the same line without its characters outside the
\* alphabet, executed from the same tape and cursor, end with the same return
\* code, tape, cursor and output.
C14_CommentsChangeNothing ==
    (BothEnded /\ start[1] = start[2]) =>
        /\ pc[1] = pc[2]
        /\ rc[1] = rc[2]
        /\ cells[1] = cells[2]
        /\ cellptr[1] = cellptr[2]
        /\ out[1] = out[2]

\* A line with a "C" after an operation has run and changed the tape.
C14_Witness ==
    /\ \A s \in Sessions : pc[s] = "returned"
    /\ \E k \in 2..Len(repl) : repl[k] = "C" /\ repl[k - 1] \in Alphabet
    /\ cells[2] # start[2].cells

\* The loops of a line of scan loops from index k on, in text order: the
\* direction and the number of pointer moves of each.
RECURSIVE LoopsOf(_, _)
LoopsOf(line, k) ==
    IF k >= Len(line) THEN <<>>
    ELSE IF line[k] = "["
    THEN LET e == RunEnd(line, k + 1, {line[k + 1]})
         IN  <<[dir |-> line[k + 1], stride |-> e - (k + 1)]>> \o LoopsOf(line, e)
    ELSE LoopsOf(line, k + 1)

\* The scan instructions of a vector, in order.
ScanOps(ins) == SelectSeq(ins, LAMBDA x : x.Type \in {SCN_RGT, SCN_LFT})

\* C15: in the vector compiled with the idiom recognizer from a line of scan
\* loops, the k-th scan instruction has the direction and, as its stride, the
\* number of pointer moves of the k-th loop of the line; none is missing.
C15_ScanStrideIsItsLoops ==
    InExecute(2) =>
        LET loops == LoopsOf(repl, 1)
            ops   == ScanOps(instructions[2])
        IN  /\ Len(ops) = Len(loops)
            /\ \A k \in 1..Len(ops) :
                   /\ ops[k].Type = (IF loops[k].dir = ">" THEN SCN_RGT ELSE SCN_LFT)
                   /\ ops[k].Data = loops[k].stride

\* The string the stdin-overwrite rule is applied to, for the line code.
BeforeOverwrite(code) ==
    LET c1 == clearloop(Normalize(code))
        r  == scanloopRight(c1, <<>>)
        l  == scanloopLeft(r.code, r.scanloopMap)
    IN  noClearPrint(l.code)

\* What the rule may not delete: all but "+", "-" and "C".
Preserved(code) == SelectSeq(code, LAMBDA c : c \notin {"+", "-", "C"})

\* C16: the stdin-overwrite rule deletes nothing but "+", "-" and "C": the
\* pointer moves, the outputs and the "," of the string it is applied to are
\* in its result, in the same order.
C16_OverwriteKeepsMovesAndOutput ==
    InExecute(2) =>
        Preserved(overwrite(BeforeOverwrite(repl))) = Preserved(BeforeOverwrite(repl))

\* C17: whenever the run of a line with the known-zero rule skipped returns,
\* the run with the rule applied returns with the same tape and cursor.
C17_KnownZeroRuleKeepsTapeAndCursor ==
    (/\ pc[1] = "returned" /\ pc[2] \in {"returned", "crashed"}
     /\ start[1] = start[2]) =>
        /\ pc[2] = "returned"
        /\ cells[2] = cells[1]
        /\ cellptr[2] = cellptr[1]

\* Two neighbours of code cancel each other.
Cancelling(code) ==
    \E k \in 1..Len(code) - 1 :
        <<code[k], code[k + 1]>> \in
            {<<"+", "-">>, <<"-", "+">>, <<">", "<">>, <<"<", ">">>}

\* C18: the string the normalizer makes of a line has no character outside
\* the alphabet and no two neighbours that cancel each other.
C18_NormalizedHasNoCancellingPair ==
    (\E s \in Sessions : InExecute(s)) =>
        /\ \A k \in 1..Len(Normalize(repl)) : Normalize(repl)[k] \in Alphabet
        /\ ~Cancelling(Normalize(repl))

\* The locals of the compile loop at the head of every iteration from index
\* k on, and after the last.
RECURSIVE CompileStates(_, _, _)
CompileStates(rw, k, c) ==
    {c} \cup (IF k > Len(rw.code) THEN {}
              ELSE LET n == compileStep(rw, k, c)
                   IN  IF n.done THEN {} ELSE CompileStates(rw, n.next, n.c))

\* The locals the compile loop goes through for the line of session s.
CompileStatesOf(s) ==
    CompileStates(Rewrite(repl, optimize[s]), 1, CompileState(<<>>, <<>>, 0, 0, 0))

\* JMP_ZER minus JMP_NOT_ZER among the first k instructions of ins.
RECURSIVE LoopDepth(_, _)
LoopDepth(ins, k) ==
    IF k = 0 THEN 0
    ELSE LoopDepth(ins, k - 1)
             + (IF ins[k].Type = JMP_ZER THEN 1
                ELSE IF ins[k].Type = JMP_NOT_ZER THEN -1 ELSE 0)

\* An instruction of ins with a nonzero offset is a data op outside every loop.
OffsetsOnlyOutsideLoops(ins) ==
    \A k \in 1..Len(ins) :
        ins[k].Offset # 0 =>
            /\ ins[k].Type \in {ADD_SUB, PUT_CHR, RAD_CHR, CLR, MUL_CPY}
            /\ LoopDepth(ins, k - 1) = 0

\* C19: while a line is compiled, the pending offset is 0 whenever the brace
\* stack is not empty, and in the vector, as far as it is emitted and as it is
\* run, only data ops outside every loop have a nonzero offset.
C19_OffsetsOnlyAtDepthZero ==
    \A s \in Sessions :
        InExecute(s) =>
            /\ \A c \in CompileStatesOf(s) :
                   /\ Len(c.braceStack) # 0 => c.offset = 0
                   /\ OffsetsOnlyOutsideLoops(c.instructions)
            /\ OffsetsOnlyOutsideLoops(instructions[s])

\* A line is compiled that has a data op at a nonzero offset and, behind it,
\* an open loop.
C19_Witness ==
    \E s \in Sessions :
        /\ InExecute(s)
        /\ \E c \in CompileStatesOf(s) :
              /\ \E k \in 1..Len(c.instructions) : c.instructions[k].Offset # 0
              /\ Len(c.braceStack) # 0
              /\ c.instructions[Len(c.instructions)].Type = JMP_ZER

\* ------------------------------------ sessions beside a reference run

\* The index of the "]" that closes the "[" at index k of line, and of the
\* "[" that the "]" at index k closes.
MatchClose(line, k) ==
    CHOOSE j \in k + 1..Len(line) :
        /\ DepthAfter(line, j) = DepthAfter(line, k - 1)
        /\ \A m \in k + 1..j - 1 : DepthAfter(line, m) # DepthAfter(line, k - 1)
MatchOpen(line, k) ==
    CHOOSE j \in 1..k - 1 : line[j] = "[" /\ MatchClose(line, j) = k

\* One character of the source interpreted directly, with the standard
\* semantics, by the session record v whose instructions are the characters
\* of the line; input is what is left of standard input. The run is not
\* followed further ("crashed") when the cursor would leave the tape or a
\* read finds no byte.
ReferenceStep(v, input) ==
    IF v.i >= Len(v.instructions)
    THEN [v EXCEPT !.cellptr = v.lCellptr, !.rc = 0, !.pc = "returned"]
    ELSE LET ch   == v.instructions[v.i + 1]
             p    == v.lCellptr
             next == [v EXCEPT !.i = @ + 1]
         IN  CASE ch = "+" -> [next EXCEPT !.cells[p] = (@ + 1) % 256]
               [] ch = "-" -> [next EXCEPT !.cells[p] = (@ + 255) % 256]
               [] ch = ">" -> IF InsideTape(p + 1) THEN [next EXCEPT !.lCellptr = p + 1]
                              ELSE [v EXCEPT !.pc = "crashed"]
               [] ch = "<" -> IF InsideTape(p - 1) THEN [next EXCEPT !.lCellptr = p - 1]
                              ELSE [v EXCEPT !.pc = "crashed"]
               [] ch = "." -> [next EXCEPT !.out = Append(@, v.cells[p])]
               [] ch = "," -> IF input = <<>> THEN [v EXCEPT !.pc = "crashed"]
                              ELSE [next EXCEPT !.cells[p] = Head(input)]
               [] ch = "[" -> IF v.cells[p] = 0
                              THEN [v EXCEPT !.i = MatchClose(v.instructions, v.i + 1)]
                              ELSE next
               [] ch = "]" -> IF v.cells[p] # 0
                              THEN [v EXCEPT !.i = MatchOpen(v.instructions, v.i + 1)]
                              ELSE next
               [] OTHER -> next

\* The reference run reads a byte in this step.
ReferenceReads ==
    /\ 1 \in Running
    /\ i[1] < Len(instructions[1])
    /\ instructions[1][i[1] + 1] = ","
    /\ stdin[1] # <<>>

\* Session 2 executes the line, with -o=false; session 1 interprets its
\* characters.
ExecuteBesideReference(line) ==
    Enter(line, [s \in Sessions |->
                   IF s = 1 THEN Compiled(0, line, FALSE)
                   ELSE Compile(line, optimize[s])])

\* The line typed is a program with balanced brackets.
ReadBalancedLine ==
    /\ AtPrompt
    /\ \E line \in {l \in Lines(MaxTyped - typed) : Balanced(l)} :
          ExecuteBesideReference(line)

\* Every running session executes its next step: session 1 one character,
\* session 2 one instruction.
StepBesideReference ==
    /\ Running # {}
    /\ Put([s \in Sessions |->
              IF s \notin Running THEN View(s)
              ELSE IF s = 1 THEN ReferenceStep(View(s), stdin[s])
              ELSE RunStep(View(s))])
    /\ stdin' = IF ReferenceReads THEN [stdin EXCEPT ![1] = Tail(@)] ELSE stdin
    /\ UNCHANGED <<optimize, repl, typed>>

\* main up to the first prompt, with -o=false.
InitReference == StartedWith(FALSE, ZeroTape, 0)

NextReference ==
    \/ ReadBalancedLine
    \/ StepBesideReference
    \/ Prompt

SpecReference == InitReference /\ [][NextReference]_vars

\* C20: with -o=false, whenever interpreting a line with balanced brackets
\* character by character ends inside the tape, the run of the compiled
\* vector from the same tape and cursor returns with the same tape and cursor.
C20_CompiledRunIsTheReferenceRun ==
    (/\ pc[1] = "returned" /\ pc[2] \in {"returned", "crashed"}
     /\ start[1] = start[2]) =>
        /\ pc[2] = "returned" /\ rc[2] = 0
        /\ cells[2] = cells[1]
        /\ cellptr[2] = cellptr[1]

\* The MUL_CPY instructions of a vector.
MulOps(ins) == {k \in 1..Len(ins) : ins[k].Type = MUL_CPY}

\* C21: in every compiled vector each MUL_CPY has a multiplier from 1 to 255
\* and a nonzero target offset: a fused copy never targets its own source
\* cell.
C21_MulTargetsAnotherCell ==
    \A s \in Sessions :
        InExecute(s) =>
            \A k \in MulOps(instructions[s]) :
                /\ instructions[s][k].AuxData \in 1..255
                /\ instructions[s][k].Data # 0

\* The ">" minus the "<" among the first k characters of line.
NetMoves(line, k) ==
    Count(SubSeq(line, 1, k), ">") - Count(SubSeq(line, 1, k), "<")

\* line has no bracket, and followed character by character from cell p its
\* cursor is inside the tape all along.
StraightInside(line, p) ==
    /\ \A k \in 1..Len(line) : line[k] \notin {"[", "]"}
    /\ \A k \in 0..Len(line) : InsideTape(p + NetMoves(line, k))

\* The locals of the compile loop when it ends at the end of the input.
RECURSIVE CompileEnd(_, _, _)
CompileEnd(rw, k, c) ==
    IF k > Len(rw.code) THEN c
    ELSE LET n == compileStep(rw, k, c)
         IN  IF n.done THEN n.c ELSE CompileEnd(rw, n.next, n.c)

\* The vector ins ends with the one PTR_MOV it has, of offset, when offset is
\* not 0, and has no PTR_MOV when it is.
TrailingMove(ins, offset) ==
    LET moves == {k \in 1..Len(ins) : ins[k].Type = PTR_MOV}
    IN  IF offset = 0 THEN moves = {}
        ELSE moves = {Len(ins)} /\ ins[Len(ins)].Data = offset

\* C22: the run of a straight-line program that stays inside the tape stores
\* the cursor it started with plus the number of ">" minus the number of "<"
\* of the line, and its vector has a trailing PTR_MOV exactly when the
\* pending offset at the end of the input is not 0.
C22_StraightLineCursor ==
    (/\ pc[2] \in {"returned", "crashed"}
     /\ StraightInside(repl, start[2].cellptr)) =>
        /\ pc[2] = "returned"
        /\ cellptr[2] = start[2].cellptr + NetMoves(repl, Len(repl))
        /\ TrailingMove(instructions[2],
                        CompileEnd(Rewrite(repl, optimize[2]), 1,
                                   CompileState(<<>>, <<>>, 0, 0, 0)).offset)

\* ---------------------------- sessions of two lines beside their concatenation

\* The programs with balanced brackets one line of a composition can be.
Parts == {l \in Lines(MaxPart) : l # <<>> /\ Balanced(l)}

\* main with -o=false in both sessions, up to the first prompt.
InitCompose == StartedWith(FALSE, ZeroTape, 0)

\* The session record v back at the prompt after execute has returned.
AtNextPrompt(v) ==
    [v EXCEPT !.pc = "prompt", !.instructions = <<>>, !.i = 0, !.lCellptr = 0,
              !.out = <<>>, !.rc = 0,
              !.start = [cells |-> v.cells, cellptr |-> v.cellptr]]

\* Session 1 reads a line and executes it; session 2 is still at its first
\* prompt.
ReadFirst ==
    /\ AtPrompt /\ typed = 0
    /\ \E a \in Parts :
          /\ repl' = a
          /\ typed' = typed + Cost(a)
          /\ Put([s \in Sessions |->
                    IF s = 1 THEN Call(View(s), Compile(a, optimize[s]))
                    ELSE View(s)])
    /\ UNCHANGED <<optimize, stdin>>

\* Session 1, back from its first line, reads a second line and executes it
\* (a session that panicked is gone); session 2 reads the two lines as one
\* and executes it.
ReadSecond ==
    /\ pc[1] \in {"returned", "crashed"} /\ pc[2] = "prompt"
    /\ \E b \in Parts :
          /\ repl' = repl \o b
          /\ typed' = typed + Cost(b)
          /\ Put([s \in Sessions |->
                    IF s = 2 THEN Call(View(s), Compile(repl \o b, optimize[s]))
                    ELSE IF pc[s] = "returned"
                    THEN Call(AtNextPrompt(View(s)), Compile(b, optimize[s]))
                    ELSE Gone(View(s))])
    /\ UNCHANGED <<optimize, stdin>>

NextCompose ==
    \/ ReadFirst
    \/ ReadSecond
    \/ Step

SpecCompose == InitCompose /\ [][NextCompose]_vars

C24_ScanEndsWithoutPanic ==
    [][\A s \in Sessions :
          (/\ AboutToExecute(s)
           /\ Current(s).Type \in {SCN_RGT, SCN_LFT}
           /\ InsideTape(lCellptr[s])
           /\ Current(s).Data >= 1) =>
              /\ pc'[s] = "run"
              /\ i'[s] = i[s] + 1
              /\ cells'[s] = cells[s]
              /\ Current(s).Type = SCN_RGT =>
                     lCellptr'[s] \in lCellptr[s]..MemorySize - 1 + Current(s).Data
              /\ Current(s).Type = SCN_LFT =>
                     lCellptr'[s] \in 1 - Current(s).Data..lCellptr[s]]_vars

\* The first instruction of a run was a scan that started inside the tape,
\* on a nonzero cell, and whose last stride stepped past the edge of the
\* tape.
C24_Witness ==
    \E s \in Sessions :
        /\ pc[s] = "run" /\ i[s] = 1
        /\ instructions[s][1].Type \in {SCN_RGT, SCN_LFT}
        /\ InsideTape(start[s].cellptr)
        /\ start[s].cells[start[s].cellptr] # 0
        /\ ~InsideTape(lCellptr[s])

\* ------------------------------------------------------ sessions of idioms

\* What the lines of idioms are put together from: a loop of each kind the
\* idiom recognizer has a pattern for, single brackets to put around them,
\* and the other characters.
Pieces ==
    {<<"[", "-", "]">>, <<"[", ">", "]">>, <<"[", "<", "]">>,
     <<"[", "-", ">", "+", "<", "]">>,
     <<"[">>, <<"]">>, <<"+">>, <<">">>, <<".">>, <<",">>}

\* The lines of one to MaxPieces pieces.
IdiomLines ==
    {Concatenated(list, 1) : list \in UNION {[1..n -> Pieces] : n \in 1..MaxPieces}}

\* The line typed is a line of idioms.
ReadIdioms == AtPrompt /\ typed = 0 /\ \E line \in IdiomLines : Execute(line)

NextIdiom ==
    \/ ReadIdioms
    \/ Step
    \/ Prompt

SpecIdiom == Init /\ [][NextIdiom]_vars

\* The letters the idiom recognizer puts in the place of loops.
Placeholders == {"C", "R", "L", "P"}

\* The character at index k of code is between a "[" and its matching "]".
Enclosed(code, k) ==
    \E j \in 1..k - 1, m \in k + 1..Len(code) :
        /\ code[j] = "[" /\ code[m] = "]"
        /\ Balanced(SubSeq(code, j + 1, m - 1))

\* No loop of line is inside another loop.
Unnested(line) ==
    \A k \in 1..Len(line) : line[k] = "[" => ~Enclosed(line, k)

\* No placeholder of the rewritten string code is inside a loop.
PlaceholdersOutsideLoops(code) ==
    \A k \in 1..Len(code) : code[k] \in Placeholders => ~Enclosed(code, k)

\* C25 as it is stated: in the rewritten string of every line, no placeholder
\* C, R, L or P is between a "[" and its matching "]".
C25_PlaceholdersAtDepthZero ==
    \A s \in Sessions :
        InExecute(s) => PlaceholdersOutsideLoops(Rewrite(repl, optimize[s]).code)

\* C25, for the lines it holds for: in the rewritten string of a line none of
\* whose loops is inside another loop, no placeholder C, R, L or P is between
\* a "[" and its matching "]".
C25_PlaceholdersOutsideUnnestedLoops ==
    \A s \in Sessions :
        (InExecute(s) /\ Unnested(repl)) =>
            PlaceholdersOutsideLoops(Rewrite(repl, optimize[s]).code)

\* A line with balanced brackets and without nested loops is rewritten to a
\* string with a placeholder and a loop that is left in place.
C25_Witness ==
    /\ InExecute(2) /\ Unnested(repl) /\ Balanced(repl)
    /\ LET code == Rewrite(repl, optimize[2]).code
       IN  /\ \E k \in 1..Len(code) : code[k] \in Placeholders
           /\ \E k \in 1..Len(code) : code[k] = "["
====
